---- MODULE Spec2Model ----
(***************************************************************************)
(* The compliance poller of monitoring/sentry-integration.py: one thread   *)
(* that, once per cycle, runs check_compliance_violations, then            *)
(* check_financial_integrity, then sleeps.  Each action below is one       *)
(* statement group of the script; pc is the position of the single thread. *)
(* The monitored service, the metrics gateway and the paging service are   *)
(* the environment: every outbound call either raises or returns one of a  *)
(* small set of bodies.                                                    *)
(***************************************************************************)
EXTENDS Integers, Sequences, FiniteSets, TLC

VARIABLES
    pc,                \* position of the thread
    pagerduty_key,     \* os.getenv("PAGERDUTY_KEY"), fixed for the process
    state_violations,  \* Gauge 'compliance_state_violations_total', by label
    kyc_queue_size,    \* Gauge 'kyc_queue_size'
    violations,        \* local of check_compliance_violations
    idx,               \* position of the for loop in violations
    queue_size,        \* local of check_compliance_violations
    integrity,         \* local of check_financial_integrity
    exc,               \* the exception in flight (where it was raised)
    log,               \* what the cycle has done so far, in order
    entered_with,      \* the gauges as they were when the cycle began
    seen               \* per region: STATE_RESTRICTION entries the loop got to

vars == <<pc, pagerduty_key, state_violations, kyc_queue_size, violations,
          idx, queue_size, integrity, exc, log, entered_with, seen>>

----------------------------------------------------------------------------
(* Bounds *)

MaxLen == 2     \* longest violations list the service returns
MaxCount == 2   \* STATE_RESTRICTION entries the loop gets to, over all cycles

(* Program constants *)

KycThreshold == 100

None == "None"

\* a local variable or the exception in flight: unset, or holding a value
Null == <<>>
Some(x) == <<x>>
Regions == {"TX", "CA"}

----------------------------------------------------------------------------
(* Bodies the environment can return *)

\* Entries of the violations list: dicts, some with keys missing.
ViolationEntries ==
    { [type |-> "STATE_RESTRICTION", state |-> "TX", user_id |-> "u1", timestamp |-> "T"],
      [type |-> "STATE_RESTRICTION", state |-> "CA", user_id |-> "u2", timestamp |-> "T"],
      [type |-> "DAILY_LIMIT", state |-> "TX", user_id |-> "u1", timestamp |-> "T"],
      [type |-> "STATE_RESTRICTION", state |-> "TX"],
      [state |-> "CA"] }

ViolationLists == UNION { [1..n -> ViolationEntries] : n \in 0..MaxLen }

\* JSON scalars under the key 'size': integers, and a number sent as a string.
JsonInt(n) == [t |-> "int", v |-> n]
JsonStr(s) == [t |-> "str", v |-> s]

KycBodies ==
    { [size |-> JsonInt(KycThreshold)],
      [size |-> JsonInt(KycThreshold + 1)],
      [size |-> JsonStr(<<"1", "0", "1">>)],
      [count |-> JsonInt(KycThreshold + 1)] }

IntegrityBodies ==
    { [balanced |-> TRUE],
      [balanced |-> FALSE, imbalance |-> 5, affected_users |-> <<"u1", "u2">>],
      [balanced |-> FALSE] }

PagerdutyKeys == {None, "", "R0UT1NGKEY"}

----------------------------------------------------------------------------
(* Python helpers *)

HasKey(d, k) == k \in DOMAIN d

\* the credential tested against None only
Truthy_NotNone(s) == s # None

\* truth value of an environment string: None and "" are false
Truthy(s) == s # None /\ s # ""

Digits == <<"0", "1", "2", "3", "4", "5", "6", "7", "8", "9">>

\* str(n) of an f-string, n >= 0
RECURSIVE Str(_)
Str(n) == IF n < 10 THEN <<Digits[n + 1]>>
          ELSE Append(Str(n \div 10), Digits[(n % 10) + 1])

DigitValue(c) == CHOOSE d \in 0..9 : Digits[d + 1] = c

\* the number a string of digits denotes
RECURSIVE ParseDigits(_)
ParseDigits(s) == IF Len(s) = 0 THEN 0
                  ELSE 10 * ParseDigits(SubSeq(s, 1, Len(s) - 1)) + DigitValue(s[Len(s)])

\* float(value) as Gauge.set applies it
Float(x) == IF x.t = "int" THEN x.v ELSE ParseDigits(x.v)

\* value > 100 is defined for numbers only; a str operand raises TypeError
Comparable(x) == x.t = "int"

----------------------------------------------------------------------------
(* What the cycle leaves in the log *)

Get(url) == [kind |-> "GET", url |-> url]

Message(level, message, extras) ==
    [kind |-> "capture_message", level |-> level, message |-> message, extras |-> extras]

Raised(e) == [kind |-> "raise", exception |-> e]

Captured(e) == [kind |-> "capture_exception", exception |-> e]

Printed(e) == [kind |-> "print", exception |-> e]

GaugeSet(value) == [kind |-> "kyc_queue_size.set", value |-> value]

Pushed(sv, kyc) ==
    [kind |-> "push_to_gateway", job |-> "compliance_monitor",
     state_violations |-> sv, kyc_queue_size |-> kyc]

Post(key, title, message) ==
    [kind |-> "POST", routing_key |-> key, summary |-> title, message |-> message]

----------------------------------------------------------------------------
(* Exceptions: the statements each try block encloses, and the handler an  *)
(* exception raised at a statement reaches.                                *)

\* the push left outside the try block
TryCompliance_NoPush ==
    {"violations_get", "violations_for", "kyc_get", "kyc_set", "kyc_check"}

TryCompliance ==
    {"violations_get", "violations_for", "kyc_get", "kyc_set", "kyc_check", "push"}

\* the call of trigger_pagerduty_alert left outside the try block
TryIntegrity_FetchOnly == {"integrity_get", "integrity_check"}

TryIntegrity == {"integrity_get", "integrity_check", "trigger_pagerduty_alert"}

\* trigger_pagerduty_alert encloses its POST in no try block; it is called
\* from the statement "trigger_pagerduty_alert" of check_financial_integrity.
\* The main loop encloses its two calls in no try block either.
CallSite(site) == IF site = "pagerduty_post" THEN "trigger_pagerduty_alert" ELSE None

\* the KYC fetch given a handler of its own that goes on to the push
RECURSIVE Handler_KycSwallowed(_)
Handler_KycSwallowed(site) ==
    IF site = "kyc_get" THEN "push"
    ELSE IF site \in TryCompliance THEN "compliance_except"
    ELSE IF site \in TryIntegrity THEN "integrity_except"
    ELSE IF CallSite(site) # None THEN Handler_KycSwallowed(CallSite(site))
    ELSE "unhandled"

RECURSIVE Handler(_)
Handler(site) ==
    IF site \in TryCompliance THEN "compliance_except"
    ELSE IF site \in TryIntegrity THEN "integrity_except"
    ELSE IF CallSite(site) # None THEN Handler(CallSite(site))
    ELSE "unhandled"

Exception(site, type) == [site |-> site, type |-> type]

\* the statement at site raises, after it did what events says
Raise(site, type, events) ==
    /\ pc' = Handler(site)
    /\ exc' = Some(Exception(site, type))
    /\ log' = log \o events \o <<Raised(Exception(site, type))>>

----------------------------------------------------------------------------
(* check_compliance_violations *)

\* the type test left out
IsStateRestriction_Any(violation) == TRUE

IsStateRestriction(violation) == violation.type = "STATE_RESTRICTION"

\* the counter assigned instead of incremented
Inc_Assign(gauge, label) == [gauge EXCEPT ![label] = 1]

\* Gauge.labels(state=...).inc()
Inc(gauge, label) == [gauge EXCEPT ![label] = @ + 1]

\* an entry at which the loop body raises KeyError
Faulty(violation) ==
    \/ ~HasKey(violation, "type")
    \/ /\ violation.type = "STATE_RESTRICTION"
       /\ \E k \in {"state", "user_id", "timestamp"} : ~HasKey(violation, k)

\* the entries of a list the for loop gets to: all of them up to the first
\* one at which it raises
Reach(list) ==
    IF \E k \in 1..Len(list) : Faulty(list[k])
    THEN CHOOSE k \in 1..Len(list) :
            Faulty(list[k]) /\ \A j \in 1..(k - 1) : ~Faulty(list[j])
    ELSE Len(list)

\* the STATE_RESTRICTION entries naming region r among them
SeenIn(list, r) ==
    Cardinality({ k \in 1..Reach(list) :
        /\ HasKey(list[k], "type")
        /\ list[k].type = "STATE_RESTRICTION"
        /\ HasKey(list[k], "state")
        /\ list[k].state = r })

\* the sum of a per-region count
RECURSIVE TotalOver(_, _)
TotalOver(count, regions) ==
    IF regions = {} THEN 0
    ELSE LET r == CHOOSE x \in regions : TRUE
         IN  count[r] + TotalOver(count, regions \ {r})

Total(count) == TotalOver(count, Regions)

ViolationsGet ==
    /\ pc = "violations_get"
    /\ LET get == Get("/api/v1/admin/compliance/violations") IN
       \/ /\ Raise("violations_get", "ConnectionError", <<get>>)
          /\ UNCHANGED <<violations, idx, seen>>
       \/ /\ Raise("violations_get", "JSONDecodeError", <<get>>)
          /\ UNCHANGED <<violations, idx, seen>>
       \/ \E list \in ViolationLists :
             /\ Total(seen) + Total([r \in Regions |-> SeenIn(list, r)]) <= MaxCount
             /\ violations' = Some(list)
             /\ idx' = 1
             /\ seen' = [r \in Regions |-> seen[r] + SeenIn(list, r)]
             /\ log' = Append(log, get)
             /\ pc' = "violations_for"
             /\ UNCHANGED exc
    /\ UNCHANGED <<pagerduty_key, state_violations, kyc_queue_size, queue_size,
                   integrity, entered_with>>

\* one pass through the body of the for loop, or its exit
ViolationsFor ==
    /\ pc = "violations_for"
    /\ IF idx > Len(violations[1])
       THEN /\ pc' = "kyc_get"
            /\ UNCHANGED <<state_violations, idx, exc, log>>
       ELSE LET violation == violations[1][idx] IN
            IF ~HasKey(violation, "type")
            THEN /\ Raise("violations_for", "KeyError", <<>>)
                 /\ UNCHANGED <<state_violations, idx>>
            ELSE IF ~IsStateRestriction(violation)
            THEN /\ idx' = idx + 1
                 /\ UNCHANGED <<pc, state_violations, exc, log>>
            ELSE IF ~HasKey(violation, "state")
            THEN /\ Raise("violations_for", "KeyError", <<>>)
                 /\ UNCHANGED <<state_violations, idx>>
            ELSE /\ state_violations' = Inc(state_violations, violation.state)
                 /\ IF HasKey(violation, "user_id") /\ HasKey(violation, "timestamp")
                    THEN /\ log' = Append(log, Message("error",
                                      <<"State restriction violation: ", violation.state>>,
                                      [user_id |-> violation.user_id,
                                       state |-> violation.state,
                                       timestamp |-> violation.timestamp]))
                         /\ idx' = idx + 1
                         /\ UNCHANGED <<pc, exc>>
                    ELSE /\ Raise("violations_for", "KeyError", <<>>)
                         /\ UNCHANGED idx
    /\ UNCHANGED <<pagerduty_key, kyc_queue_size, violations, queue_size, integrity,
                   entered_with, seen>>

KycGet ==
    /\ pc = "kyc_get"
    /\ LET get == Get("/api/v1/admin/kyc/queue/size") IN
       \/ /\ Raise("kyc_get", "ConnectionError", <<get>>)
          /\ UNCHANGED queue_size
       \/ /\ Raise("kyc_get", "JSONDecodeError", <<get>>)
          /\ UNCHANGED queue_size
       \/ \E body \in KycBodies :
             IF HasKey(body, "size")
             THEN /\ queue_size' = Some(body.size)
                  /\ log' = Append(log, get)
                  /\ pc' = "kyc_set"
                  /\ UNCHANGED exc
             ELSE /\ Raise("kyc_get", "KeyError", <<get>>)
                  /\ UNCHANGED queue_size
    /\ UNCHANGED <<pagerduty_key, state_violations, kyc_queue_size, violations, idx,
                   integrity, entered_with, seen>>

KycSet ==
    /\ pc = "kyc_set"
    /\ kyc_queue_size' = Float(queue_size[1])
    /\ log' = Append(log, GaugeSet(Float(queue_size[1])))
    /\ pc' = "kyc_check"
    /\ UNCHANGED <<pagerduty_key, state_violations, violations, idx, queue_size,
                   integrity, exc, entered_with, seen>>

\* >= for >
ExceedsThreshold_Inclusive(size) == size >= KycThreshold

ExceedsThreshold(size) == size > KycThreshold

KycCheck ==
    /\ pc = "kyc_check"
    /\ IF ~Comparable(queue_size[1])
       THEN Raise("kyc_check", "TypeError", <<>>)
       ELSE /\ log' = IF ExceedsThreshold(queue_size[1].v)
                      THEN Append(log, Message("warning",
                               <<"KYC queue backlog: ", Str(queue_size[1].v), " cases pending">>,
                               None))
                      ELSE log
            /\ pc' = "push"
            /\ UNCHANGED exc
    /\ UNCHANGED <<pagerduty_key, state_violations, kyc_queue_size, violations, idx,
                   queue_size, integrity, entered_with, seen>>

Push ==
    /\ pc = "push"
    /\ LET push == Pushed(state_violations, kyc_queue_size) IN
       \/ /\ log' = Append(log, push)
          /\ pc' = "compliance_return"
          /\ UNCHANGED exc
       \/ Raise("push", "URLError", <<push>>)
    /\ UNCHANGED <<pagerduty_key, state_violations, kyc_queue_size, violations, idx,
                   queue_size, integrity, entered_with, seen>>

\* the handler around the violations fetch alone: the flow goes on after it
ComplianceExcept_Resume ==
    /\ pc = "compliance_except"
    /\ log' = log \o <<Captured(exc[1]), Printed(exc[1])>>
    /\ exc' = Null
    /\ pc' = IF exc[1].site \in {"violations_get", "violations_for"}
             THEN "kyc_get" ELSE "compliance_return"
    /\ UNCHANGED <<pagerduty_key, state_violations, kyc_queue_size, violations, idx,
                   queue_size, integrity, entered_with, seen>>

ComplianceExcept ==
    /\ pc = "compliance_except"
    /\ log' = log \o <<Captured(exc[1]), Printed(exc[1])>>
    /\ exc' = Null
    /\ pc' = "compliance_return"
    /\ UNCHANGED <<pagerduty_key, state_violations, kyc_queue_size, violations, idx,
                   queue_size, integrity, entered_with, seen>>

\* the function returns to the main loop, which calls check_financial_integrity
ComplianceReturn ==
    /\ pc = "compliance_return"
    /\ violations' = Null
    /\ idx' = 0
    /\ queue_size' = Null
    /\ pc' = "integrity_get"
    /\ UNCHANGED <<pagerduty_key, state_violations, kyc_queue_size, integrity, exc,
                   log, entered_with, seen>>

----------------------------------------------------------------------------
(* check_financial_integrity and trigger_pagerduty_alert *)

\* the test of the flag inverted
Unbalanced_Inverted(report) == report.balanced

\* the test of the flag left out
Unbalanced_Always(report) == TRUE

Unbalanced(report) == ~report.balanced

IntegrityGet ==
    /\ pc = "integrity_get"
    /\ LET get == Get("/api/v1/admin/financial/integrity") IN
       \/ /\ Raise("integrity_get", "ConnectionError", <<get>>)
          /\ UNCHANGED integrity
       \/ /\ Raise("integrity_get", "JSONDecodeError", <<get>>)
          /\ UNCHANGED integrity
       \/ \E body \in IntegrityBodies :
             /\ integrity' = Some(body)
             /\ log' = Append(log, get)
             /\ pc' = "integrity_check"
             /\ UNCHANGED exc
    /\ UNCHANGED <<pagerduty_key, state_violations, kyc_queue_size, violations, idx,
                   queue_size, entered_with, seen>>

IntegrityCheck ==
    /\ pc = "integrity_check"
    /\ IF ~HasKey(integrity[1], "balanced")
       THEN Raise("integrity_check", "KeyError", <<>>)
       ELSE IF ~Unbalanced(integrity[1])
       THEN /\ pc' = "integrity_return"
            /\ UNCHANGED <<exc, log>>
       ELSE IF HasKey(integrity[1], "imbalance") /\ HasKey(integrity[1], "affected_users")
       THEN /\ log' = Append(log, Message("fatal",
                         <<"CRITICAL: Ledger imbalance detected">>,
                         [imbalance_amount |-> integrity[1].imbalance,
                          affected_users |-> integrity[1].affected_users]))
            /\ pc' = "trigger_pagerduty_alert"
            /\ UNCHANGED exc
       ELSE Raise("integrity_check", "KeyError", <<>>)
    /\ UNCHANGED <<pagerduty_key, state_violations, kyc_queue_size, violations, idx,
                   queue_size, integrity, entered_with, seen>>

TriggerPagerdutyAlert ==
    /\ pc = "trigger_pagerduty_alert"
    /\ IF Truthy(pagerduty_key)
       THEN LET post == Post(pagerduty_key, "Ledger Imbalance",
                         <<"Imbalance of ", Str(integrity[1].imbalance), " detected">>) IN
            \/ /\ log' = Append(log, post)
               /\ pc' = "integrity_return"
               /\ UNCHANGED exc
            \/ Raise("pagerduty_post", "ConnectionError", <<post>>)
       ELSE /\ pc' = "integrity_return"
            /\ UNCHANGED <<exc, log>>
    /\ UNCHANGED <<pagerduty_key, state_violations, kyc_queue_size, violations, idx,
                   queue_size, integrity, entered_with, seen>>

IntegrityExcept ==
    /\ pc = "integrity_except"
    /\ log' = Append(log, Captured(exc[1]))
    /\ exc' = Null
    /\ pc' = "integrity_return"
    /\ UNCHANGED <<pagerduty_key, state_violations, kyc_queue_size, violations, idx,
                   queue_size, integrity, entered_with, seen>>

IntegrityReturn ==
    /\ pc = "integrity_return"
    /\ integrity' = Null
    /\ pc' = "sleep"
    /\ UNCHANGED <<pagerduty_key, state_violations, kyc_queue_size, violations, idx,
                   queue_size, exc, log, entered_with, seen>>

----------------------------------------------------------------------------
(* The main loop *)

Registry == [state_violations |-> state_violations, kyc_queue_size |-> kyc_queue_size]

\* time.sleep(60) returns and the loop calls check_compliance_violations again
Sleep ==
    /\ pc = "sleep"
    /\ log' = <<>>
    /\ entered_with' = Registry
    /\ pc' = "violations_get"
    /\ UNCHANGED <<pagerduty_key, state_violations, kyc_queue_size, violations, idx,
                   queue_size, integrity, exc, seen>>

Init ==
    /\ pc = "violations_get"
    /\ pagerduty_key \in PagerdutyKeys
    /\ state_violations = [r \in Regions |-> 0]
    /\ kyc_queue_size = 0
    /\ violations = Null
    /\ idx = 0
    /\ queue_size = Null
    /\ integrity = Null
    /\ exc = Null
    /\ log = <<>>
    /\ entered_with = Registry
    /\ seen = [r \in Regions |-> 0]

Next ==
    \/ ViolationsGet
    \/ ViolationsFor
    \/ KycGet
    \/ KycSet
    \/ KycCheck
    \/ Push
    \/ ComplianceExcept
    \/ ComplianceReturn
    \/ IntegrityGet
    \/ IntegrityCheck
    \/ TriggerPagerdutyAlert
    \/ IntegrityExcept
    \/ IntegrityReturn
    \/ Sleep

Spec == Init /\ [][Next]_vars

\* every call returns or raises, and the thread then takes its next step
FairSpec == Spec /\ WF_vars(Next)

----------------------------------------------------------------------------
(* Reading the log *)

Indices(kind) == { k \in 1..Len(log) : log[k].kind = kind }

Messages(level) ==
    { k \in Indices("capture_message") : log[k].level = level }

\* where the integrity flow's events begin: at its GET, or past the end
IntegrityStart ==
    LET gets == { k \in Indices("GET") : log[k].url = "/api/v1/admin/financial/integrity" }
    IN  IF gets = {} THEN Len(log) + 1 ELSE CHOOSE k \in gets : \A j \in gets : k <= j

InComplianceRun(k) == k < IntegrityStart
InIntegrityRun(k) == k >= IntegrityStart

\* the statements of check_compliance_violations that can raise
ComplianceSites ==
    {"violations_get", "violations_for", "kyc_get", "kyc_set", "kyc_check", "push"}
ComplianceRaises ==
    { k \in Indices("raise") : log[k].exception.site \in ComplianceSites }

\* a Violation of the data model: all four fields present
IsViolation(entry) ==
    \A key \in {"type", "state", "user_id", "timestamp"} : HasKey(entry, key)

IsErrorMessage(event) == event.kind = "capture_message" /\ event.level = "error"
IsStateRestrictionEntry(entry) == entry.type = "STATE_RESTRICTION"

\* the error-level notification the entry calls for
NotificationFor(entry) ==
    Message("error", <<"State restriction violation: ", entry.state>>,
            [user_id |-> entry.user_id, state |-> entry.state,
             timestamp |-> entry.timestamp])

ListOfViolations ==
    /\ violations # Null
    /\ \A k \in 1..Len(violations[1]) : IsViolation(violations[1][k])

\* an IntegrityReport of the data model that is not balanced
UnbalancedReport ==
    /\ integrity # Null
    /\ integrity[1].balanced = FALSE
    /\ HasKey(integrity[1], "imbalance")
    /\ HasKey(integrity[1], "affected_users")

KycGets == { k \in Indices("GET") : log[k].url = "/api/v1/admin/kyc/queue/size" }

----------------------------------------------------------------------------
(* C1: when check_compliance_violations has run on a returned list of      *)
(* violations (entries carrying type, state, user_id and timestamp), the   *)
(* error-level notifications it emitted are exactly those of the list's    *)
(* STATE_RESTRICTION entries, one each and in order, and each region's     *)
(* counter rose by the number of STATE_RESTRICTION entries naming it;      *)
(* entries of another type add no notification and no increment.           *)
C1_StateRestrictionNotifications ==
    (pc = "compliance_return" /\ ListOfViolations) =>
        LET wanted == SelectSeq(violations[1], IsStateRestrictionEntry)
            got == SelectSeq(log, IsErrorMessage)
        IN  /\ Len(got) = Len(wanted)
            /\ \A k \in 1..Len(wanted) : got[k] = NotificationFor(wanted[k])
            /\ \A r \in Regions :
                   state_violations[r] - entered_with.state_violations[r]
                       = Cardinality({ k \in 1..Len(wanted) : wanted[k].state = r })

\* a run over a list holding a STATE_RESTRICTION entry and one of another type
C1_Witness ==
    /\ pc = "compliance_return"
    /\ ListOfViolations
    /\ \E j, k \in 1..Len(violations[1]) :
           /\ violations[1][j].type = "STATE_RESTRICTION"
           /\ violations[1][k].type # "STATE_RESTRICTION"
    /\ Cardinality(Messages("error")) = 1

----------------------------------------------------------------------------
(* C2: when the KYC GET returned an integer size s and the run of          *)
(* check_compliance_violations has ended, it emitted no warning-level      *)
(* notification if s <= 100, and exactly one, whose message holds the      *)
(* decimal digits of s, if s > 100.                                        *)
C2_KycBacklogWarning ==
    (pc = "compliance_return" /\ queue_size # Null /\ queue_size[1].t = "int") =>
        LET warnings == Messages("warning") IN
        IF queue_size[1].v <= 100
        THEN warnings = {}
        ELSE /\ Cardinality(warnings) = 1
             /\ \A k \in warnings :
                    /\ Len(log[k].message) = 3
                    /\ ParseDigits(log[k].message[2]) = queue_size[1].v

\* the size just over the threshold, with its warning
C2_Witness ==
    /\ pc = "compliance_return"
    /\ queue_size # Null
    /\ queue_size[1].t = "int"
    /\ queue_size[1].v = 101
    /\ Cardinality(Messages("warning")) = 1

----------------------------------------------------------------------------
(* C3: with a paging credential configured, a run of                       *)
(* check_financial_integrity on a report with balanced = false (carrying   *)
(* its imbalance and affected users) emits exactly one fatal-level         *)
(* notification, whose extras are the report's imbalance amount and        *)
(* affected-user list, and makes exactly one paging POST, after the        *)
(* notification.                                                           *)
C3_FatalThenPage ==
    (pc = "integrity_return" /\ UnbalancedReport /\ pagerduty_key \notin {None, ""}) =>
        LET fatal == Messages("fatal")
            posts == Indices("POST")
        IN  /\ Cardinality(fatal) = 1
            /\ Cardinality(posts) = 1
            /\ \A f \in fatal : \A p \in posts :
                   /\ f < p
                   /\ InIntegrityRun(f)
                   /\ log[f].extras = [imbalance_amount |-> integrity[1].imbalance,
                                       affected_users |-> integrity[1].affected_users]
                   /\ log[p].routing_key = pagerduty_key

\* the page went out and the function returns
C3_Witness ==
    /\ pc = "integrity_return"
    /\ UnbalancedReport
    /\ pagerduty_key \notin {None, ""}
    /\ Indices("POST") # {}
    /\ Indices("raise") = {}

----------------------------------------------------------------------------
(* C4: with no paging credential, no paging POST is ever made, and a run   *)
(* of check_financial_integrity on a report with balanced = false still    *)
(* emits the one fatal-level notification.                                 *)
C4_NoCredentialNoPage ==
    (pagerduty_key \in {None, ""}) =>
        /\ Indices("POST") = {}
        /\ (pc = "integrity_return" /\ UnbalancedReport) =>
               /\ Cardinality(Messages("fatal")) = 1
               /\ \A k \in Indices("raise") : InComplianceRun(k)

\* the credential is unset and the fatal notification is out
C4_Witness ==
    /\ pagerduty_key = None
    /\ pc = "integrity_return"
    /\ UnbalancedReport
    /\ Messages("fatal") # {}

----------------------------------------------------------------------------
(* C5: a run of check_financial_integrity whose GET returned balanced =    *)
(* true emits no notification of any level, captures no exception and      *)
(* makes no paging POST.                                                   *)
C5_BalancedIsSilent ==
    (pc = "integrity_return" /\ integrity # Null /\ integrity[1].balanced = TRUE) =>
        \A k \in 1..Len(log) :
            InIntegrityRun(k) =>
                log[k].kind \notin {"capture_message", "capture_exception", "POST", "raise"}

\* a balanced report after a compliance run that did notify
C5_Witness ==
    /\ pc = "integrity_return"
    /\ integrity # Null
    /\ integrity[1].balanced = TRUE
    /\ Messages("error") # {}

----------------------------------------------------------------------------
\* every raise of the flow has been, or is about to be, captured once, and
\* nothing else is captured in the flow; the thread has not died
C6_CapturedOnce ==
    /\ pc # "unhandled"
    /\ Cardinality(ComplianceRaises) <= 1
    /\ \A k \in ComplianceRaises :
           IF pc = "compliance_except"
           THEN /\ k = Len(log)
                /\ exc = Some(log[k].exception)
                /\ Indices("capture_exception") = {}
           ELSE /\ Len(log) >= k + 1
                /\ log[k + 1] = Captured(log[k].exception)
                /\ { j \in Indices("capture_exception") : InComplianceRun(j) } = {k + 1}
    /\ (ComplianceRaises = {}) =>
           { j \in Indices("capture_exception") : InComplianceRun(j) } = {}

(* C6: a failure at any statement of the violations/queue flow is reported *)
(* as exactly one captured exception, the very exception raised, and goes  *)
(* no further: the thread never dies of it, the cycle reaches its sleep    *)
(* and the next cycle starts.                                              *)
C6_FailureIsReportedAndLoopGoesOn ==
    /\ []C6_CapturedOnce
    /\ (pc = "compliance_except") ~> (pc = "sleep" /\ ComplianceRaises # {})
    /\ (pc = "sleep") ~> (pc = "violations_get" /\ log = <<>>)

\* a cycle whose metrics push failed, asleep
C6_Witness ==
    /\ pc = "sleep"
    /\ \E k \in ComplianceRaises : log[k].exception.site = "push"

----------------------------------------------------------------------------
(* C7, as the spec has it: a failure of the paging POST is caught by no    *)
(* error boundary; it leaves check_financial_integrity unhandled and is    *)
(* never reported as a captured exception.                                 *)
C7_PagingFailureEscapes ==
    /\ (exc # Null /\ exc[1].site = "pagerduty_post") => pc = "unhandled"
    /\ \A k \in Indices("capture_exception") :
           log[k].exception.site # "pagerduty_post"

(* C7, amended: trigger_pagerduty_alert handles no error itself, but a     *)
(* failure of its POST is caught by the error boundary of                  *)
(* check_financial_integrity, reported as one captured exception, and the  *)
(* function returns to the loop.                                           *)
C7_PagingFailureCaptured ==
    /\ (exc # Null /\ exc[1].site = "pagerduty_post") => pc = "integrity_except"
    /\ \A k \in Indices("raise") :
           (log[k].exception.site = "pagerduty_post") =>
               /\ Messages("fatal") # {}
               /\ log[k - 1].kind = "POST"
               /\ pc \in {"integrity_except", "integrity_return", "sleep"}
               /\ (pc # "integrity_except") =>
                      /\ Len(log) = k + 1
                      /\ log[k + 1] = Captured(log[k].exception)

\* the cycle whose page failed, asleep
C7_Witness ==
    /\ pc = "sleep"
    /\ \E k \in Indices("raise") : log[k].exception.site = "pagerduty_post"

----------------------------------------------------------------------------
\* what a push carries is the running total, not the cycle's own count
C8_PushedIsCumulative ==
    \A k \in Indices("push_to_gateway") : log[k].state_violations = seen

(* C8: no step lowers a region's counter, and every metrics push carries,  *)
(* for each region, the number of STATE_RESTRICTION entries naming it that *)
(* the loop got to in all cycles since the process started.                *)
C8_CountersNeverReset ==
    /\ []C8_PushedIsCumulative
    /\ [][\A r \in Regions : state_violations'[r] >= state_violations[r]]_vars

\* a push of a count that is more than this cycle's own
C8_Witness ==
    \E k \in Indices("push_to_gateway") : \E r \in Regions :
        /\ entered_with.state_violations[r] > 0
        /\ log[k].state_violations[r] > entered_with.state_violations[r]

----------------------------------------------------------------------------
(* C9: an exception at a statement of steps 1-3 ends those steps for the   *)
(* cycle (all that follows in the flow is its report and the local print;  *)
(* after a failed violations fetch there is no KYC GET, no gauge set and   *)
(* no push, after a failed KYC fetch no gauge set and no push), and the    *)
(* integrity GET is still made in that cycle.                              *)
C9_SharedBoundary ==
    /\ \A k \in ComplianceRaises :
           /\ \A j \in 1..Len(log) :
                  (j > k /\ InComplianceRun(j)) =>
                      log[j].kind \in {"capture_exception", "print"}
           /\ (log[k].exception.site = "violations_get") =>
                  /\ KycGets = {}
                  /\ Indices("kyc_queue_size.set") = {}
                  /\ Indices("push_to_gateway") = {}
           /\ (log[k].exception.site = "kyc_get") =>
                  /\ Indices("kyc_queue_size.set") = {}
                  /\ Indices("push_to_gateway") = {}
           /\ (pc \in {"integrity_check", "trigger_pagerduty_alert", "integrity_except",
                       "integrity_return", "sleep"}) => IntegrityStart = k + 3
    /\ (pc = "sleep") => IntegrityStart <= Len(log)

\* the violations fetch failed and the integrity GET was made all the same
C9_Witness ==
    /\ pc = "sleep"
    /\ \E k \in ComplianceRaises : log[k].exception.site = "violations_get"
    /\ IntegrityStart <= Len(log)

----------------------------------------------------------------------------
(* C10: a cycle pushes at most once; the push comes after the cycle's KYC  *)
(* GET returned and its gauge was set, before the integrity GET, and in a  *)
(* cycle where nothing failed before it; the kyc_queue_size it carries is  *)
(* the size that GET returned, never one kept from an earlier cycle.       *)
C10_PushCarriesThisCyclesSize ==
    LET pushes == Indices("push_to_gateway")
        sets == Indices("kyc_queue_size.set")
    IN  /\ Cardinality(pushes) <= 1
        /\ \A k \in pushes :
               /\ InComplianceRun(k)
               /\ \A j \in Indices("raise") : j > k
               /\ Cardinality(sets) = 1
               /\ Cardinality(KycGets) = 1
               /\ \A g \in KycGets : \A j \in sets :
                      /\ g < j
                      /\ j < k
                      /\ log[k].kyc_queue_size = log[j].value
               /\ (queue_size # Null) =>
                      /\ queue_size[1].t = "int"
                      /\ log[k].kyc_queue_size = queue_size[1].v

\* the push replaces the size an earlier cycle left in the gauge
C10_Witness ==
    /\ queue_size # Null
    /\ \E k \in Indices("push_to_gateway") :
           /\ entered_with.kyc_queue_size # 0
           /\ entered_with.kyc_queue_size # log[k].kyc_queue_size

====
